---- MODULE Spec2Model ----
(***************************************************************************)
(* Weekly habit and task tracker (src/main.py): the Store kept by          *)
(* TrackerApp (daily_data, habits, task_templates), the week that          *)
(* initialize_week_data materialises at startup, and the handlers that     *)
(* mutate the Store.                                                       *)
(*                                                                         *)
(* A Python str is a sequence of symbols; the symbol " " is whitespace.    *)
(* A dict is a function; a list is a sequence.  A date is a day ordinal,   *)
(* and strftime("%Y-%m-%d") turns it into the key <<year, month, day>>.    *)
(***************************************************************************)
EXTENDS Integers, Sequences, FiniteSets, TLC

VARIABLES
    daily_data,        \* self.daily_data: date -> [tasks, task_status, habits]
    habits,            \* self.habits
    task_templates,    \* self.task_templates
    week_start_date,   \* self.week_start_date, a day ordinal
    habit_vars,        \* self.habit_vars: the IntVars of the habit checkboxes
    shown,             \* the percentages on display: donuts, bars, habit labels, week
    current_theme,     \* self.theme.current_theme
    disk,              \* the file tracker_data.json
    last,              \* the handler that ran last and its arguments
    pre,               \* the Store as it was when that handler was called
    steps              \* handler calls so far

vars == <<daily_data, habits, task_templates, week_start_date, habit_vars, shown,
          current_theme, disk, last, pre, steps>>

----------------------------------------------------------------------------
(* Bounds of the model *)

\* Handler calls explored after startup when every handler may be called.
MaxSteps == 2

\* Handler calls explored after startup when only the habit handlers are called.
MaxHabitSteps == 3

\* Handler calls explored after startup when only the task handlers are called.
MaxTaskSteps == 3

\* Clicks on checkboxes explored after startup.
MaxClicks == 3

\* The longest tasks list of one day in a file found at startup.
MaxDayTasks == 50

\* Handler calls, saves and restarts explored after startup when all of them
\* may happen.
MaxDiskSteps == 1

\* Changes to the tasks of single days explored after a startup on any of the
\* files of WeekDocs.
MaxWeekSteps == 2

\* Task handler calls and clicks explored after the first start of the
\* program.
MaxFreshSteps == 3

\* Clicks, additions, saves and restarts explored after startup when only
\* they happen.
MaxSaveSteps == 2

----------------------------------------------------------------------------
(* Python built-ins used by the handlers *)

EmptyDict == <<>>

Range(seq) == {seq[i] : i \in 1..Len(seq)}

\* x in list
InList(x, seq) == \E i \in 1..Len(seq) : seq[i] = x

\* list.index(x), defined when x is in the list: the first position
index(seq, x) == CHOOSE i \in 1..Len(seq) : seq[i] = x /\ \A j \in 1..(i - 1) : seq[j] # x

\* list.remove(x), defined when x is in the list: drops the first occurrence
remove(seq, x) ==
    LET i == index(seq, x)
    IN  SubSeq(seq, 1, i - 1) \o SubSeq(seq, i + 1, Len(seq))

\* list[idx] = x
SetItem(seq, i, x) == [seq EXCEPT ![i] = x]

\* d[k] = v
DictSet(d, k, v) == [x \in (DOMAIN d) \cup {k} |-> IF x = k THEN v ELSE d[x]]

\* d.get(k, default)
DictGet(d, k, default) == IF k \in DOMAIN d THEN d[k] ELSE default

\* d.pop(k, default): the dict left behind
DictPop(d, k) == [x \in (DOMAIN d) \ {k} |-> d[x]]

\* {k: False for k in list}
AllFalse(seq) == [x \in Range(seq) |-> FALSE]

IsSpace(c) == c = " "

RECURSIVE lstrip(_)
lstrip(s) == IF s # <<>> /\ IsSpace(Head(s)) THEN lstrip(Tail(s)) ELSE s

RECURSIVE rstrip(_)
rstrip(s) == IF s # <<>> /\ IsSpace(s[Len(s)]) THEN rstrip(SubSeq(s, 1, Len(s) - 1)) ELSE s

\* str.strip()
strip(s) == rstrip(lstrip(s))

----------------------------------------------------------------------------
(* Python float arithmetic, for completed / total * 100.

   A float is an IEEE 754 double: a significand of 53 bits and a power of
   two.  The significand is kept as five limbs, least significant first:
   four limbs of 13 bits and the leading bit, so that no intermediate
   result leaves 32 bits.  Operands are positive integers below 2^17. *)

\* 2^13, the base of a limb
Limb == 8192

\* n * 2^k
RECURSIVE shl(_, _)
shl(n, k) == IF k = 0 THEN n ELSE shl(2 * n, k - 1)

\* The least k with c * 2^k >= n
RECURSIVE LeadingShift(_, _)
LeadingShift(c, n) == IF c >= n THEN 0 ELSE 1 + LeadingShift(2 * c, n)

\* limbs + carry * Limb^(i-1); the last limb takes what is left
RECURSIVE AddCarry(_, _, _)
AddCarry(limbs, i, carry) ==
    IF carry = 0 THEN limbs
    ELSE IF i = Len(limbs) THEN [limbs EXCEPT ![i] = @ + carry]
    ELSE AddCarry([limbs EXCEPT ![i] = (@ + carry) % Limb], i + 1,
                  (limbs[i] + carry) \div Limb)

\* 0.0
FloatZero == [sig |-> <<0, 0, 0, 0, 0>>, up |-> 0, down |-> 0]

\* c / n of two ints: the quotient rounded to the nearest double, ties to
\* even.  The value is sig * 2^(up - down - 52).
truediv(c, n) ==
    IF c = 0 THEN FloatZero ELSE
    LET down == LeadingShift(c, n)              \* c * 2^down / (n * 2^up) is in [1, 2)
        up   == IF c >= n THEN LeadingShift(n, c + 1) - 1 ELSE 0
        num  == shl(c, down)
        den  == shl(n, up)
        r0 == num - den
        q1 == (r0 * Limb) \div den
        r1 == (r0 * Limb) % den
        q2 == (r1 * Limb) \div den
        r2 == (r1 * Limb) % den
        q3 == (r2 * Limb) \div den
        r3 == (r2 * Limb) % den
        q4 == (r3 * Limb) \div den
        r4 == (r3 * Limb) % den
        round_up == 2 * r4 > den \/ (2 * r4 = den /\ q4 % 2 = 1)
    IN  [sig |-> AddCarry(<<q4, q3, q2, q1, 1>>, 1, IF round_up THEN 1 ELSE 0),
         up |-> up, down |-> down]

\* x * 100: the exact product, rounded to 53 bits, ties to even
mul100(x) ==
    LET p1 == x.sig[1] * 100
        p2 == x.sig[2] * 100 + p1 \div Limb
        p3 == x.sig[3] * 100 + p2 \div Limb
        p4 == x.sig[4] * 100 + p3 \div Limb
        p5 == x.sig[5] * 100 + p4 \div Limb
        low  == p1 % Limb
        ulp  == IF p5 < 128 THEN 64 ELSE 128    \* the product has 59 or 60 bits
        rest == low % ulp
        round_up == 2 * rest > ulp \/ (2 * rest = ulp /\ ((low - rest) \div ulp) % 2 = 1)
    IN  [x EXCEPT !.sig = AddCarry(<<low - rest, p2 % Limb, p3 % Limb, p4 % Limb, p5>>, 1,
                                   IF round_up THEN ulp ELSE 0)]

\* int(x): truncation, for x below 2^20
int(x) ==
    IF x.down >= x.up
    THEN x.sig[5] \div shl(1, x.down - x.up)
    ELSE x.sig[5] * shl(1, x.up - x.down) + (x.sig[4] * shl(1, x.up - x.down)) \div Limb

\* int((completed / total) * 100)
percent(completed, total) ==
    IF completed = 0 THEN 0                      \* 0 / total is 0.0
    ELSE int(mul100(truediv(completed, total)))

----------------------------------------------------------------------------
(* Dates *)

\* Day ordinal 0 is Monday 2024-05-27; the model's clock stays within
\* May 27 .. June 30 of 2024.

\* datetime.weekday(): Monday is 0
weekday(n) == n % 7

\* strftime("%Y-%m-%d"), for ordinals 0..34
strftime(n) ==
    IF 27 + n <= 31
    THEN <<2024, 5, 27 + n>>
    ELSE <<2024, 6, 27 + n - 31>>

\* DataManager.get_week_start
get_week_start(date) == date - weekday(date)

\* range(7) of initialize_week_data, populate_*_list and the charts
DaysInWeek == 7

WeekDates(ws) == {strftime(ws + i) : i \in 0..(DaysInWeek - 1)}

----------------------------------------------------------------------------
(* The Store and the handlers of TrackerApp, as functions of the Store *)

Store == [daily_data |-> daily_data, habits |-> habits, task_templates |-> task_templates]

MkStore(dd, hs, tt) == [daily_data |-> dd, habits |-> hs, task_templates |-> tt]

\* A dialog's get_input(): None when cancelled, else the text typed
None == [cancelled |-> TRUE, text |-> <<>>]
Typed(raw) == [cancelled |-> FALSE, text |-> raw]

\* Mutant of NewDayRecord: the statuses are set but the tasks are not listed
NewDayRecord_Unlisted(hs, tt) ==
    [tasks |-> <<>>, task_status |-> AllFalse(tt), habits |-> AllFalse(hs)]

\* The record initialize_week_data creates for a date without one
NewDayRecord(hs, tt) ==
    [tasks |-> tt, task_status |-> AllFalse(tt), habits |-> AllFalse(hs)]

\* Mutant of EnsureHabits: an existing record is left as loaded
EnsureHabits_Skip(rec, hs) == rec

\* Mutant of EnsureHabits: the habits of an existing record are set anew
EnsureHabits_Reset(rec, hs) == [rec EXCEPT !.habits = AllFalse(hs)]

\* The else branch of initialize_week_data: missing habits are added as False
EnsureHabits(rec, hs) ==
    [rec EXCEPT !.habits =
        [h \in (DOMAIN rec.habits) \cup Range(hs) |->
            IF h \in DOMAIN rec.habits THEN rec.habits[h] ELSE FALSE]]

initialize_week_data(dd, hs, tt, ws) ==
    [d \in (DOMAIN dd) \cup WeekDates(ws) |->
        IF d \in WeekDates(ws)
        THEN IF d \notin DOMAIN dd THEN NewDayRecord(hs, tt) ELSE EnsureHabits(dd[d], hs)
        ELSE dd[d]]

\* Mutant of SetHabitEverywhere: only the displayed week is updated
SetHabitEverywhere_WeekOnly(dd, name) ==
    [d \in DOMAIN dd |->
        IF d \in WeekDates(week_start_date)
        THEN [dd[d] EXCEPT !.habits = DictSet(@, name, FALSE)]
        ELSE dd[d]]

\* for date in self.daily_data: self.daily_data[date]["habits"][name] = False
SetHabitEverywhere(dd, name) ==
    [d \in DOMAIN dd |-> [dd[d] EXCEPT !.habits = DictSet(@, name, FALSE)]]

\* Mutant of AppendHabit: the new habit is put first
AppendHabit_Front(s, text) ==
    MkStore(SetHabitEverywhere(s.daily_data, text), <<text>> \o s.habits, s.task_templates)

AppendHabit(s, text) ==
    MkStore(SetHabitEverywhere(s.daily_data, text), Append(s.habits, text), s.task_templates)

add_habit_global(s, raw) ==
    LET text == strip(raw)
    IN  IF text = <<>> THEN s
        ELSE IF InList(text, s.habits) THEN s
        ELSE AppendHabit(s, text)

\* Mutant of add_habit_inline: the membership test is missing
add_habit_inline_NoDupCheck(s, raw) ==
    LET new_habit == strip(raw)
    IN  IF new_habit # <<>> THEN AppendHabit(s, new_habit) ELSE s

add_habit_inline(s, raw) ==
    LET new_habit == strip(raw)
    IN  IF new_habit # <<>>
        THEN IF InList(new_habit, s.habits) THEN s ELSE AppendHabit(s, new_habit)
        ELSE s

\* Mutant of RenameHabitEverywhere: the renamed habit starts unchecked
RenameHabitEverywhere_Reset(dd, old, new) ==
    [d \in DOMAIN dd |-> [dd[d] EXCEPT !.habits = DictSet(DictPop(@, old), new, FALSE)]]

\* val = habits.pop(old, False); habits[new] = val, in every record
RenameHabitEverywhere(dd, old, new) ==
    [d \in DOMAIN dd |->
        [dd[d] EXCEPT !.habits = DictSet(DictPop(@, old), new, DictGet(@, old, FALSE))]]

\* Mutant of edit_habit: the old name is removed and the new one appended
edit_habit_MoveToEnd(s, old_habit, dlg) ==
    IF ~dlg.cancelled /\ dlg.text # <<>> /\ strip(dlg.text) # <<>> /\ dlg.text # old_habit
    THEN LET new_habit == strip(dlg.text)
         IN  IF InList(new_habit, s.habits) THEN s
             ELSE IF ~InList(old_habit, s.habits) THEN s
             ELSE MkStore(RenameHabitEverywhere(s.daily_data, old_habit, new_habit),
                          Append(remove(s.habits, old_habit), new_habit),
                          s.task_templates)
    ELSE s

edit_habit(s, old_habit, dlg) ==
    IF ~dlg.cancelled /\ dlg.text # <<>> /\ strip(dlg.text) # <<>> /\ dlg.text # old_habit
    THEN LET new_habit == strip(dlg.text)
         IN  IF InList(new_habit, s.habits) THEN s
             ELSE IF ~InList(old_habit, s.habits) THEN s     \* ValueError, caught
             ELSE MkStore(RenameHabitEverywhere(s.daily_data, old_habit, new_habit),
                          SetItem(s.habits, index(s.habits, old_habit), new_habit),
                          s.task_templates)
    ELSE s

\* Mutant of PopHabitEverywhere: only the displayed week is updated
PopHabitEverywhere_WeekOnly(dd, habit) ==
    [d \in DOMAIN dd |->
        IF d \in WeekDates(week_start_date)
        THEN [dd[d] EXCEPT !.habits = DictPop(@, habit)]
        ELSE dd[d]]

\* for date in self.daily_data: self.daily_data[date]["habits"].pop(habit, None)
PopHabitEverywhere(dd, habit) ==
    [d \in DOMAIN dd |-> [dd[d] EXCEPT !.habits = DictPop(@, habit)]]

delete_habit(s, habit, confirm) ==
    IF InList(habit, s.habits)
    THEN IF confirm
         THEN MkStore(PopHabitEverywhere(s.daily_data, habit), remove(s.habits, habit),
                      s.task_templates)
         ELSE s
    ELSE s

clear_all_habits(s, confirm) ==
    IF s.habits = <<>> THEN s
    ELSE IF confirm
         THEN MkStore([d \in DOMAIN s.daily_data |->
                          [s.daily_data[d] EXCEPT !.habits = EmptyDict]],
                      <<>>, s.task_templates)
         ELSE s

\* Mutant of update_habit: a missing date gets an empty record first
update_habit_SetDefault(s, habit, date, status) ==
    MkStore([d \in (DOMAIN s.daily_data) \cup {date} |->
                IF d = date
                THEN [tasks |-> IF d \in DOMAIN s.daily_data THEN s.daily_data[d].tasks ELSE <<>>,
                      task_status |-> IF d \in DOMAIN s.daily_data
                                      THEN s.daily_data[d].task_status ELSE EmptyDict,
                      habits |-> DictSet(IF d \in DOMAIN s.daily_data
                                         THEN s.daily_data[d].habits ELSE EmptyDict,
                                         habit, status)]
                ELSE s.daily_data[d]],
            s.habits, s.task_templates)

\* self.daily_data[date]["habits"][habit] = status; a missing date is a KeyError
update_habit(s, habit, date, status) ==
    IF date \notin DOMAIN s.daily_data THEN s
    ELSE [s EXCEPT !.daily_data[date].habits = DictSet(@, habit, status)]

update_task(s, task, date, status) ==
    IF date \notin DOMAIN s.daily_data THEN s
    ELSE [s EXCEPT !.daily_data[date].task_status = DictSet(@, task, status)]

\* Mutant of add_task_template: a day that already lists the name is skipped
add_task_template_SkipListed(s, raw) ==
    LET text == strip(raw)
    IN  IF text = <<>> THEN s
        ELSE IF InList(text, s.task_templates) THEN s
        ELSE MkStore([d \in DOMAIN s.daily_data |->
                         IF InList(text, s.daily_data[d].tasks) THEN s.daily_data[d]
                         ELSE [s.daily_data[d] EXCEPT !.tasks = Append(@, text),
                                                      !.task_status = DictSet(@, text, FALSE)]],
                     s.habits, Append(s.task_templates, text))

add_task_template(s, raw) ==
    LET text == strip(raw)
    IN  IF text = <<>> THEN s
        ELSE IF InList(text, s.task_templates) THEN s
        ELSE MkStore([d \in DOMAIN s.daily_data |->
                         [s.daily_data[d] EXCEPT !.tasks = Append(@, text),
                                                 !.task_status = DictSet(@, text, FALSE)]],
                     s.habits, Append(s.task_templates, text))

\* Mutant of add_task_to_day: the membership test is missing
add_task_to_day_NoDupCheck(s, date, dlg) ==
    IF ~dlg.cancelled /\ dlg.text # <<>> /\ strip(dlg.text) # <<>>
    THEN LET new_task == strip(dlg.text)
         IN  IF date \notin DOMAIN s.daily_data THEN s
             ELSE [s EXCEPT !.daily_data[date].tasks = Append(@, new_task),
                            !.daily_data[date].task_status = DictSet(@, new_task, FALSE)]
    ELSE s

add_task_to_day(s, date, dlg) ==
    IF ~dlg.cancelled /\ dlg.text # <<>> /\ strip(dlg.text) # <<>>
    THEN LET new_task == strip(dlg.text)
         IN  IF date \notin DOMAIN s.daily_data THEN s       \* KeyError
             ELSE IF InList(new_task, s.daily_data[date].tasks) THEN s
             ELSE [s EXCEPT !.daily_data[date].tasks = Append(@, new_task),
                            !.daily_data[date].task_status = DictSet(@, new_task, FALSE)]
    ELSE s

\* Mutant of edit_task: the membership test is missing
edit_task_NoDupCheck(s, old_task, date, dlg) ==
    IF ~dlg.cancelled /\ dlg.text # <<>> /\ strip(dlg.text) # <<>> /\ dlg.text # old_task
    THEN LET new_task == strip(dlg.text)
         IN  IF date \notin DOMAIN s.daily_data THEN s
             ELSE IF ~InList(old_task, s.daily_data[date].tasks) THEN s
             ELSE [s EXCEPT !.daily_data[date].tasks =
                                SetItem(@, index(@, old_task), new_task),
                            !.daily_data[date].task_status =
                                DictSet(DictPop(@, old_task), new_task,
                                        DictGet(@, old_task, FALSE))]
    ELSE s

edit_task(s, old_task, date, dlg) ==
    IF ~dlg.cancelled /\ dlg.text # <<>> /\ strip(dlg.text) # <<>> /\ dlg.text # old_task
    THEN LET new_task == strip(dlg.text)
         IN  IF date \notin DOMAIN s.daily_data THEN s       \* KeyError, caught
             ELSE IF InList(new_task, s.daily_data[date].tasks) THEN s
             ELSE IF ~InList(old_task, s.daily_data[date].tasks) THEN s  \* ValueError, caught
             ELSE [s EXCEPT !.daily_data[date].tasks =
                                SetItem(@, index(@, old_task), new_task),
                            !.daily_data[date].task_status =
                                DictSet(DictPop(@, old_task), new_task,
                                        DictGet(@, old_task, FALSE))]
    ELSE s

\* Mutant of delete_task: the name is removed from the templates as well
delete_task_AlsoTemplate(s, task, date, confirm) ==
    IF confirm
    THEN IF date \notin DOMAIN s.daily_data THEN s
         ELSE IF InList(task, s.daily_data[date].tasks)
              THEN [s EXCEPT !.daily_data[date].tasks = remove(@, task),
                             !.daily_data[date].task_status = DictPop(@, task),
                             !.task_templates = SelectSeq(@, LAMBDA t : t # task)]
              ELSE s
    ELSE s

delete_task(s, task, date, confirm) ==
    IF confirm
    THEN IF date \notin DOMAIN s.daily_data THEN s           \* KeyError, caught
         ELSE IF InList(task, s.daily_data[date].tasks)
              THEN [s EXCEPT !.daily_data[date].tasks = remove(@, task),
                             !.daily_data[date].task_status = DictPop(@, task)]
              ELSE s
    ELSE s

clear_all_tasks(s, confirm) ==
    LET has_tasks == \/ Len(s.task_templates) > 0
                     \/ \E d \in DOMAIN s.daily_data : s.daily_data[d].tasks # <<>>
    IN  IF ~has_tasks THEN s
        ELSE IF confirm
             THEN MkStore([d \in DOMAIN s.daily_data |->
                              [s.daily_data[d] EXCEPT !.tasks = <<>>,
                                                      !.task_status = EmptyDict]],
                          s.habits, <<>>)
             ELSE s

----------------------------------------------------------------------------
(* The file tracker_data.json.  json.dump writes the document as a sequence
   of chunks and json.load parses it back; a chunk is a punctuation mark, a
   literal or a quoted string (the white space of indent=2 is not kept).  A
   dict is written in insertion order, which a function does not keep: the
   keys are written in a fixed order, and json.load builds the same dict
   from any order. *)

Tok(kind) == [kind |-> kind, text |-> <<>>]

\* A quoted string
Str(text) == [kind |-> "str", text |-> text]

\* True and False are written as true and false
Bool(b) == Tok(IF b THEN "true" ELSE "false")

\* The chunks of the items of a list or dict, with "," between them
RECURSIVE Join(_)
Join(items) ==
    IF items = <<>> THEN <<>>
    ELSE IF Len(items) = 1 THEN items[1]
    ELSE items[1] \o <<Tok(",")>> \o Join(Tail(items))

\* The keys of a dict, in the order they are written
RECURSIVE Keys(_)
Keys(S) ==
    IF S = {} THEN <<>>
    ELSE LET k == CHOOSE x \in S : TRUE IN <<k>> \o Keys(S \ {k})

\* json.dump of a list of str
dump_list(seq) ==
    <<Tok("[")>> \o Join([i \in 1..Len(seq) |-> <<Str(seq[i])>>]) \o <<Tok("]")>>

\* Mutant of dump_flags: only the keys whose flag is True are written
dump_flags_OnlyTrue(d) ==
    LET keys == Keys({k \in DOMAIN d : d[k]})
    IN  <<Tok("{")>>
        \o Join([i \in 1..Len(keys) |-> <<Str(keys[i]), Tok(":"), Bool(d[keys[i]])>>])
        \o <<Tok("}")>>

\* json.dump of a dict from str to bool
dump_flags(d) ==
    LET keys == Keys(DOMAIN d)
    IN  <<Tok("{")>>
        \o Join([i \in 1..Len(keys) |-> <<Str(keys[i]), Tok(":"), Bool(d[keys[i]])>>])
        \o <<Tok("}")>>

\* json.dump of the record of one day
dump_record(rec) ==
    <<Tok("{")>>
    \o <<Str("tasks"), Tok(":")>> \o dump_list(rec.tasks) \o <<Tok(",")>>
    \o <<Str("task_status"), Tok(":")>> \o dump_flags(rec.task_status) \o <<Tok(",")>>
    \o <<Str("habits"), Tok(":")>> \o dump_flags(rec.habits)
    \o <<Tok("}")>>

\* json.dump of daily_data
dump_days(dd) ==
    LET keys == Keys(DOMAIN dd)
    IN  <<Tok("{")>>
        \o Join([i \in 1..Len(keys) |-> <<Str(keys[i]), Tok(":")>> \o dump_record(dd[keys[i]])])
        \o <<Tok("}")>>

\* json.dump(data, f, ensure_ascii=False, indent=2) of the document of
\* TrackerApp.save_data
json_dump(data) ==
    <<Tok("{")>>
    \o <<Str("daily_data"), Tok(":")>> \o dump_days(data.daily_data) \o <<Tok(",")>>
    \o <<Str("habits"), Tok(":")>> \o dump_list(data.habits) \o <<Tok(",")>>
    \o <<Str("task_templates"), Tok(":")>> \o dump_list(data.task_templates)
    \o <<Tok("}")>>

\* The outcome of parsing a value: the value and the position after it, or
\* a JSONDecodeError
Parsed(value, next) == [ok |-> TRUE, value |-> value, next |-> next]
JSONDecodeError == [ok |-> FALSE, value |-> <<>>, next |-> 0]

KindAt(text, i) == IF i <= Len(text) THEN text[i].kind ELSE "eof"

\* json.load: a recursive-descent parser of the chunks from position i
RECURSIVE parse_value(_, _)
RECURSIVE parse_items(_, _, _)
RECURSIVE parse_members(_, _, _)

parse_value(text, i) ==
    CASE KindAt(text, i) = "str"   -> Parsed(text[i].text, i + 1)
      [] KindAt(text, i) = "true"  -> Parsed(TRUE, i + 1)
      [] KindAt(text, i) = "false" -> Parsed(FALSE, i + 1)
      [] KindAt(text, i) = "["     -> IF KindAt(text, i + 1) = "]"
                                      THEN Parsed(<<>>, i + 2)
                                      ELSE parse_items(text, i + 1, <<>>)
      [] KindAt(text, i) = "{"     -> IF KindAt(text, i + 1) = "}"
                                      THEN Parsed(EmptyDict, i + 2)
                                      ELSE parse_members(text, i + 1, EmptyDict)
      [] OTHER -> JSONDecodeError

\* The items of a list after "[" or ",", up to "]"
parse_items(text, i, list) ==
    LET item == parse_value(text, i)
    IN  IF ~item.ok THEN JSONDecodeError
        ELSE IF KindAt(text, item.next) = ","
        THEN parse_items(text, item.next + 1, Append(list, item.value))
        ELSE IF KindAt(text, item.next) = "]"
        THEN Parsed(Append(list, item.value), item.next + 1)
        ELSE JSONDecodeError

\* The members of a dict after "{" or ",", up to "}"; a key that is written
\* twice keeps its last value
parse_members(text, i, dict) ==
    IF KindAt(text, i) # "str" \/ KindAt(text, i + 1) # ":" THEN JSONDecodeError
    ELSE LET member == parse_value(text, i + 2)
         IN  IF ~member.ok THEN JSONDecodeError
             ELSE IF KindAt(text, member.next) = ","
             THEN parse_members(text, member.next + 1,
                                DictSet(dict, text[i].text, member.value))
             ELSE IF KindAt(text, member.next) = "}"
             THEN Parsed(DictSet(dict, text[i].text, member.value), member.next + 1)
             ELSE JSONDecodeError

\* json.load(f): the whole text must be one value
json_load(text) ==
    LET doc == parse_value(text, 1)
    IN  IF doc.ok /\ doc.next = Len(text) + 1 THEN doc ELSE JSONDecodeError

\* The file does not exist
NoFile == [exists |-> FALSE, text |-> <<>>]

\* The file holds the text
File(text) == [exists |-> TRUE, text |-> text]

\* DataManager.load_data: {} when the file is missing or cannot be parsed
load_data(file) ==
    IF file.exists
    THEN LET doc == json_load(file.text) IN IF doc.ok THEN doc.value ELSE EmptyDict
    ELSE EmptyDict

\* DataManager.save_data: open(DATA_FILE, 'w') fails and leaves the file
\* alone (written < 0), or empties the file, after which json.dump writes
\* its chunks until one write fails (written chunks are kept) or all are
\* written
save_data(file, data, written) ==
    IF written < 0 THEN file
    ELSE File(SubSeq(json_dump(data), 1, written))

----------------------------------------------------------------------------
(* Widgets and charts.  habit_vars holds the IntVar of every habit checkbox,
   by position in the habit list (from 1) and day of the week (from 0);
   shown holds the percentages on display. *)

\* DataManager.calculate_habit_completion_rate: a float, not truncated
calculate_habit_completion_rate(dd, habit, ws) ==
    LET completed ==
            Cardinality({i \in 0..(DaysInWeek - 1) :
                            /\ strftime(ws + i) \in DOMAIN dd
                            /\ habit \in DOMAIN dd[strftime(ws + i)].habits
                            /\ dd[strftime(ws + i)].habits[habit]})
    IN  mul100(truediv(completed, DaysInWeek))

\* Mutant of populate_habits_list: every IntVar starts unchecked
populate_habits_list_Unchecked(s, ws) ==
    [h_idx \in 1..Len(s.habits) |-> [d_idx \in 0..(DaysInWeek - 1) |-> FALSE]]

\* populate_habits_list: one row of IntVars per habit, read from the Store
populate_habits_list(s, ws) ==
    [h_idx \in 1..Len(s.habits) |->
        [d_idx \in 0..(DaysInWeek - 1) |->
            DictGet(s.daily_data[strftime(ws + d_idx)].habits, s.habits[h_idx], FALSE)]]

\* The checkbox of habit and date sets its IntVar before it calls update_habit
SetVar(hv, hs, ws, habit, date, status) ==
    [h_idx \in DOMAIN hv |->
        [d_idx \in DOMAIN hv[h_idx] |->
            IF h_idx = index(hs, habit) /\ strftime(ws + d_idx) = date
            THEN status
            ELSE hv[h_idx][d_idx]]]

\* sum(1 for t in tasks if task_status.get(t, False))
completed_count(rec) ==
    Cardinality({i \in 1..Len(rec.tasks) : DictGet(rec.task_status, rec.tasks[i], FALSE)})

\* Mutant of day_percent: completed is not divided by the number of tasks
day_percent_PerTask(rec) == percent(completed_count(rec), 1)

\* The percentage of one day: its donut and its bar
day_percent(rec) ==
    LET completed == completed_count(rec)
        total == IF rec.tasks # <<>> THEN Len(rec.tasks) ELSE 1
    IN  percent(completed, total)

\* total_tasks and completed_tasks of days i .. 6 of the week
RECURSIVE total_tasks(_, _, _)
total_tasks(dd, ws, i) ==
    IF i = DaysInWeek THEN 0
    ELSE (IF strftime(ws + i) \in DOMAIN dd THEN Len(dd[strftime(ws + i)].tasks) ELSE 0)
         + total_tasks(dd, ws, i + 1)

RECURSIVE completed_tasks(_, _, _)
completed_tasks(dd, ws, i) ==
    IF i = DaysInWeek THEN 0
    ELSE (IF strftime(ws + i) \in DOMAIN dd THEN completed_count(dd[strftime(ws + i)]) ELSE 0)
         + completed_tasks(dd, ws, i + 1)

\* The weekly percentage of the bar chart section
weekly_percent(dd, ws) ==
    LET total == total_tasks(dd, ws, 0)
    IN  IF total > 0 THEN percent(completed_tasks(dd, ws, 0), total) ELSE 0

\* The bars: one percentage per day of the week
bars(dd, ws) ==
    [d_idx \in 0..(DaysInWeek - 1) |->
        IF strftime(ws + d_idx) \in DOMAIN dd THEN day_percent(dd[strftime(ws + d_idx)]) ELSE 0]

\* The progress label of one row of habit checkboxes
habit_percent(row_vars) ==
    percent(Cardinality({d_idx \in 0..(DaysInWeek - 1) :
                            d_idx \in DOMAIN row_vars /\ row_vars[d_idx]}), DaysInWeek)

\* What the window shows when setup_ui has built it: no donut is drawn yet,
\* every habit label reads 0%, the bars and the weekly percentage are computed
setup_ui(s, hv, ws) ==
    [donut  |-> EmptyDict,
     habit  |-> [h_idx \in DOMAIN hv |-> 0],
     bars   |-> bars(s.daily_data, ws),
     weekly |-> weekly_percent(s.daily_data, ws)]

\* update_all_charts, followed by update_bar_chart
update_all_charts(s, hv, ws, sh) ==
    [donut  |-> [d \in {x \in WeekDates(ws) : x \in (DOMAIN s.daily_data) \cup (DOMAIN sh.donut)} |->
                    IF d \in DOMAIN s.daily_data THEN day_percent(s.daily_data[d])
                    ELSE sh.donut[d]],
     habit  |-> [h_idx \in DOMAIN hv |->
                    IF h_idx <= Len(s.habits) THEN habit_percent(hv[h_idx])
                    ELSE IF h_idx \in DOMAIN sh.habit THEN sh.habit[h_idx]
                    ELSE 0],
     bars   |-> bars(s.daily_data, ws),
     weekly |-> weekly_percent(s.daily_data, ws)]

----------------------------------------------------------------------------
(* Inputs: names, texts typed by the user, dates, and the file found at startup *)

A == <<"a">>
B == <<"b">>
C == <<"c">>

\* Habit names the handlers are called with
NameArgs == {A, B, C}

\* Task names the handlers are called with
TaskArgs == {A, B}

\* Texts typed into an entry or a dialog: empty, blank, and names with and
\* without surrounding whitespace
RawInputs == {<<>>, <<" ">>, A, <<" ", "b">>, <<"c", " ">>}

DialogResults == {None} \cup {Typed(raw) : raw \in RawInputs}

\* The clock at startup: any day of the week of Monday 2024-06-03
Clock == 7..13

OldDate == strftime(0)           \* a Monday before every displayed week
AbsentDate == strftime(34)       \* later than every displayed week, never stored

\* Dates the handlers are called with
DateArgs(ws) == {OldDate, strftime(ws), AbsentDate}

\* TrackerApp.__init__: the seed lists used when the file has no such key
DefaultHabits ==
    << <<"Erta", " ", "uyg'onish">>, <<"Shirnitik", " ", "yemashlik">>,
       <<"Sovuq", " ", "dush">>, <<"O'qish">>, <<"Gym">>,
       <<"Kod", " ", "yozish">>, <<"Ingliz", " ", "tili">> >>

DefaultTaskTemplates ==
    << <<"Vazifa", " ", "1">>, <<"Vazifa", " ", "2">>, <<"Vazifa", " ", "3">>,
       <<"Vazifa", " ", "4">>, <<"Vazifa", " ", "5">> >>

\* DataManager.load_data on a missing or unreadable file
EmptyDoc == [k \in {} |-> <<>>]

\* A file this program saved in an earlier week: one day of that week, in
\* lockstep with the global lists
SavedDoc ==
    [daily_data |->
        (OldDate :> [tasks |-> <<B>>, task_status |-> (B :> TRUE),
                     habits |-> (A :> TRUE @@ B :> FALSE)]),
     habits |-> <<A, B>>,
     task_templates |-> <<B>>]

\* A file of the documented schema that was not kept in lockstep (edited by
\* hand or written by another version): records that lack a global habit,
\* carry a habit that is not global, or list tasks that are no template
ForeignDoc ==
    [daily_data |->
        (OldDate :> [tasks |-> <<A>>, task_status |-> (A :> TRUE),
                     habits |-> (A :> TRUE)]) @@
        (strftime(7) :> [tasks |-> <<A, B>>, task_status |-> (A :> FALSE @@ B :> TRUE),
                         habits |-> (A :> TRUE @@ C :> TRUE)]),
     habits |-> <<A, B>>,
     task_templates |-> <<A>>]

LoadedDocs == {EmptyDoc, SavedDoc, ForeignDoc}

\* The task names "t01", "t02", ..., for i below 100
TaskName(i) ==
    LET digits == <<"0", "1", "2", "3", "4", "5", "6", "7", "8", "9">>
    IN  <<"t", digits[(i \div 10) + 1], digits[(i % 10) + 1]>>

\* A file this program saved earlier in the week of the clock: no templates,
\* one habit, and a Monday with n tasks of which the first c are checked
BusyDoc(n, c) ==
    [daily_data |->
        (strftime(7) :> [tasks |-> [i \in 1..n |-> TaskName(i)],
                         task_status |-> [t \in {TaskName(i) : i \in 1..n} |->
                                             \E i \in 1..c : t = TaskName(i)],
                         habits |-> (A :> FALSE)]),
     habits |-> <<A>>,
     task_templates |-> <<>>]

\* Records of one day as a file of the schema may hold them
WeekRecords ==
    { [tasks |-> <<>>, task_status |-> EmptyDict, habits |-> EmptyDict],
      [tasks |-> <<B>>, task_status |-> (B :> TRUE), habits |-> (A :> TRUE)],
      [tasks |-> <<A, C>>, task_status |-> (A :> FALSE @@ C :> TRUE),
       habits |-> (B :> TRUE @@ C :> FALSE)] }

\* The dates such a file may have records for: a Monday of an earlier week,
\* and the Monday and the Sunday of the week of the clock
DocDates == {OldDate, strftime(7), strftime(13)}

\* The habits and the task templates of such a file
DocLists == {<<<<>>, <<>>>>, <<<<A>>, <<A>>>>, <<<<A, B>>, <<B, A>>>>, <<<<A, B>>, <<>>>>}

\* Files of the schema with any of these records, dates and lists, and the
\* missing file
WeekDocs ==
    {EmptyDoc} \cup
    { [daily_data |-> dd, habits |-> lists[1], task_templates |-> lists[2]] :
        dd \in UNION {[dates -> WeekRecords] : dates \in SUBSET DocDates},
        lists \in DocLists }

\* stored_data.get(key, default)
get(doc, key, default) == IF key \in DOMAIN doc THEN doc[key] ELSE default

----------------------------------------------------------------------------
(* State machine.  Every handler ends by rebuilding its list of widgets
   (populate_habits_list, populate_tasks_list) and redrawing the charts
   (update_all_charts); both only read the Store. *)

NoName == <<>>
NoDate == <<>>

\* The handler that ran last and what it was called with
Label(op, name, date, dlg, flag) ==
    [op |-> op, name |-> name, date |-> date, dlg |-> dlg, flag |-> flag]

\* TrackerApp.__init__: load the file, pick the week, initialize it, build
\* the window
Startup(stored_data, now) ==
    /\ week_start_date = get_week_start(now)
    /\ habits = get(stored_data, "habits", DefaultHabits)
    /\ task_templates = get(stored_data, "task_templates", DefaultTaskTemplates)
    /\ daily_data = initialize_week_data(get(stored_data, "daily_data", EmptyDict),
                                         habits, task_templates, week_start_date)
    /\ habit_vars = populate_habits_list(Store, week_start_date)
    /\ shown = setup_ui(Store, habit_vars, week_start_date)
    /\ current_theme = "light"
    /\ last = Label("__init__", NoName, NoDate, None, FALSE)
    /\ pre = MkStore(get(stored_data, "daily_data", EmptyDict), habits, task_templates)
    /\ steps = 0

\* The file in which load_data finds the document
FileOf(doc) == IF DOMAIN doc = {} THEN NoFile ELSE File(json_dump(doc))

Init ==
    \E stored_data \in LoadedDocs, now \in Clock :
        /\ disk = FileOf(stored_data)
        /\ Startup(load_data(disk), now)

\* The handlers that end with populate_habits_list
HabitListOps ==
    {"add_habit_global", "add_habit_inline", "edit_habit", "delete_habit", "clear_all_habits"}

\* A handler call that leaves the Store as s.  The handlers rebuild their
\* list and call update_all_charts on the paths that assign to the Store,
\* each of which changes it; update_habit and update_task call
\* update_all_charts whenever the date has a record.
Apply(s, label) ==
    LET toggled == /\ label.op \in {"update_habit", "update_task"}
                   /\ label.date \in DOMAIN daily_data
        hv == IF s # Store /\ label.op \in HabitListOps
              THEN populate_habits_list(s, week_start_date)
              ELSE IF toggled /\ label.op = "update_habit" /\ InList(label.name, habits)
              THEN SetVar(habit_vars, habits, week_start_date, label.name, label.date,
                          label.flag)
              ELSE habit_vars
    IN  /\ steps' = steps + 1
        /\ daily_data' = s.daily_data
        /\ habits' = s.habits
        /\ task_templates' = s.task_templates
        /\ habit_vars' = hv
        /\ shown' = IF s # Store \/ toggled
                     THEN update_all_charts(s, hv, week_start_date, shown)
                     ELSE shown
        /\ last' = label
        /\ pre' = Store
        /\ UNCHANGED <<week_start_date, current_theme, disk>>

AddHabitGlobal ==
    \E raw \in RawInputs :
        Apply(add_habit_global(Store, raw),
              Label("add_habit_global", NoName, NoDate, Typed(raw), FALSE))

AddHabitInline ==
    \E raw \in RawInputs :
        Apply(add_habit_inline(Store, raw),
              Label("add_habit_inline", NoName, NoDate, Typed(raw), FALSE))

EditHabit ==
    \E old_habit \in NameArgs, dlg \in DialogResults :
        Apply(edit_habit(Store, old_habit, dlg),
              Label("edit_habit", old_habit, NoDate, dlg, FALSE))

DeleteHabit ==
    \E habit \in NameArgs, confirm \in BOOLEAN :
        Apply(delete_habit(Store, habit, confirm),
              Label("delete_habit", habit, NoDate, None, confirm))

ClearAllHabits ==
    \E confirm \in BOOLEAN :
        Apply(clear_all_habits(Store, confirm),
              Label("clear_all_habits", NoName, NoDate, None, confirm))

UpdateHabit ==
    \E habit \in NameArgs, date \in DateArgs(week_start_date), status \in BOOLEAN :
        Apply(update_habit(Store, habit, date, status),
              Label("update_habit", habit, date, None, status))

UpdateTask ==
    \E task \in TaskArgs, date \in DateArgs(week_start_date), status \in BOOLEAN :
        Apply(update_task(Store, task, date, status),
              Label("update_task", task, date, None, status))

AddTaskTemplate ==
    \E raw \in RawInputs :
        Apply(add_task_template(Store, raw),
              Label("add_task_template", NoName, NoDate, Typed(raw), FALSE))

AddTaskToDay ==
    \E date \in DateArgs(week_start_date), dlg \in DialogResults :
        Apply(add_task_to_day(Store, date, dlg),
              Label("add_task_to_day", NoName, date, dlg, FALSE))

EditTask ==
    \E old_task \in TaskArgs, date \in DateArgs(week_start_date), dlg \in DialogResults :
        Apply(edit_task(Store, old_task, date, dlg),
              Label("edit_task", old_task, date, dlg, FALSE))

DeleteTask ==
    \E task \in TaskArgs, date \in DateArgs(week_start_date), confirm \in BOOLEAN :
        Apply(delete_task(Store, task, date, confirm),
              Label("delete_task", task, date, None, confirm))

ClearAllTasks ==
    \E confirm \in BOOLEAN :
        Apply(clear_all_tasks(Store, confirm),
              Label("clear_all_tasks", NoName, NoDate, None, confirm))

\* self.after(100, self.update_all_charts): the charts are drawn
UpdateAllCharts ==
    /\ UNCHANGED <<steps, last, pre, daily_data, habits, task_templates, week_start_date,
                   habit_vars, current_theme, disk>>
    /\ shown' = update_all_charts(Store, habit_vars, week_start_date, shown)

\* How many chunks of n reach the file in the save_data calls explored: none
\* because open fails (-1), none, half, all but the last, or all of them
Written(n) == {-1, 0, n \div 2, n - 1, n}

\* TrackerApp.save_data, the command of the save button
SaveData ==
    LET data == Store
        chunks == Len(json_dump(data))
    IN  \E written \in Written(chunks) :
            /\ disk' = save_data(disk, data, written)
            /\ last' = Label("save_data", NoName, NoDate, None, written = chunks)
            /\ pre' = Store
            /\ steps' = steps + 1
            /\ UNCHANGED <<daily_data, habits, task_templates, week_start_date,
                           habit_vars, shown, current_theme>>

\* ThemeManager.toggle
toggle(theme) == IF theme = "light" THEN "dark" ELSE "light"

\* Mutant of ToggleThemeAction: the theme button saves the Store as well
ToggleThemeAction_Saves ==
    /\ current_theme' = toggle(current_theme)
    /\ habit_vars' = populate_habits_list(Store, week_start_date)
    /\ shown' = setup_ui(Store, habit_vars', week_start_date)
    /\ last' = Label("toggle_theme_action", NoName, NoDate, None, FALSE)
    /\ pre' = Store
    /\ steps' = steps + 1
    /\ disk' = File(json_dump(Store))
    /\ UNCHANGED <<daily_data, habits, task_templates, week_start_date>>

\* toggle_theme_action: the theme flips and refresh_ui builds the window anew
ToggleThemeAction ==
    /\ current_theme' = toggle(current_theme)
    /\ habit_vars' = populate_habits_list(Store, week_start_date)
    /\ shown' = setup_ui(Store, habit_vars', week_start_date)
    /\ last' = Label("toggle_theme_action", NoName, NoDate, None, FALSE)
    /\ pre' = Store
    /\ steps' = steps + 1
    /\ UNCHANGED <<daily_data, habits, task_templates, week_start_date, disk>>

\* The window is closed and the program is started again: TrackerApp.__init__
\* with the file as it is
Restart ==
    LET stored_data == load_data(disk)
        hs == get(stored_data, "habits", DefaultHabits)
        tt == get(stored_data, "task_templates", DefaultTaskTemplates)
        loaded == get(stored_data, "daily_data", EmptyDict)
    IN  \E now \in Clock :
        LET ws == get_week_start(now)
            s == MkStore(initialize_week_data(loaded, hs, tt, ws), hs, tt)
        IN  /\ week_start_date' = ws
            /\ daily_data' = s.daily_data
            /\ habits' = hs
            /\ task_templates' = tt
            /\ habit_vars' = populate_habits_list(s, ws)
            /\ shown' = setup_ui(s, habit_vars', ws)
            /\ current_theme' = "light"
            /\ last' = Label("__init__", NoName, NoDate, None, FALSE)
            /\ pre' = MkStore(loaded, hs, tt)
            /\ steps' = steps + 1
            /\ UNCHANGED disk

\* A click on the checkbox of a habit row: the IntVar flips and the checkbox
\* calls update_habit with it
ClickHabit ==
    \E h_idx \in DOMAIN habit_vars, d_idx \in 0..(DaysInWeek - 1) :
        LET status == ~habit_vars[h_idx][d_idx]
            date == strftime(week_start_date + d_idx)
        IN  Apply(update_habit(Store, habits[h_idx], date, status),
                  Label("update_habit", habits[h_idx], date, None, status))

\* A click on the checkbox of a task of a day: its IntVar, which
\* populate_tasks_list set from the Store, flips and the checkbox calls
\* update_task with it
ClickTask ==
    \E d_idx \in 0..(DaysInWeek - 1) :
        LET date == strftime(week_start_date + d_idx)
        IN  \E i \in 1..Len(daily_data[date].tasks) :
                LET task == daily_data[date].tasks[i]
                    status == ~DictGet(daily_data[date].task_status, task, FALSE)
                IN  Apply(update_task(Store, task, date, status),
                          Label("update_task", task, date, None, status))

\* Any handler may be called next, and the timer that draws the charts may fire
Next ==
    \/ steps < MaxSteps /\ AddHabitGlobal
    \/ steps < MaxSteps /\ AddHabitInline
    \/ steps < MaxSteps /\ EditHabit
    \/ steps < MaxSteps /\ DeleteHabit
    \/ steps < MaxSteps /\ ClearAllHabits
    \/ steps < MaxSteps /\ UpdateHabit
    \/ steps < MaxSteps /\ UpdateTask
    \/ steps < MaxSteps /\ AddTaskTemplate
    \/ steps < MaxSteps /\ AddTaskToDay
    \/ steps < MaxSteps /\ EditTask
    \/ steps < MaxSteps /\ DeleteTask
    \/ steps < MaxSteps /\ ClearAllTasks
    \/ UpdateAllCharts

Spec == Init /\ [][Next]_vars

\* Only the habit handlers and the timer, explored deeper
HabitSteps ==
    \/ steps < MaxHabitSteps /\ AddHabitGlobal
    \/ steps < MaxHabitSteps /\ AddHabitInline
    \/ steps < MaxHabitSteps /\ EditHabit
    \/ steps < MaxHabitSteps /\ DeleteHabit
    \/ steps < MaxHabitSteps /\ ClearAllHabits
    \/ steps < MaxHabitSteps /\ UpdateHabit
    \/ UpdateAllCharts

SpecHabits == Init /\ [][HabitSteps]_vars

\* Only the task handlers and the timer, explored deeper
TaskSteps ==
    \/ steps < MaxTaskSteps /\ UpdateTask
    \/ steps < MaxTaskSteps /\ AddTaskTemplate
    \/ steps < MaxTaskSteps /\ AddTaskToDay
    \/ steps < MaxTaskSteps /\ EditTask
    \/ steps < MaxTaskSteps /\ DeleteTask
    \/ steps < MaxTaskSteps /\ ClearAllTasks
    \/ UpdateAllCharts

SpecTasks == Init /\ [][TaskSteps]_vars

\* Only clicks on the checkboxes of the displayed week and the drawing of the
\* charts, after a startup with a saved file of few habits and tasks
InitClicks ==
    \E stored_data \in {SavedDoc, ForeignDoc}, now \in Clock :
        /\ disk = FileOf(stored_data)
        /\ Startup(load_data(disk), now)

ClickSteps ==
    \/ steps < MaxClicks /\ ClickHabit
    \/ steps < MaxClicks /\ ClickTask
    \/ UpdateAllCharts

SpecClicks == InitClicks /\ [][ClickSteps]_vars

\* The charts of a week whose Monday has up to MaxDayTasks tasks
InitCharts ==
    \E n \in 0..MaxDayTasks, now \in Clock :
        \E c \in 0..n :
            /\ disk = FileOf(BusyDoc(n, c))
            /\ Startup(BusyDoc(n, c), now)

SpecCharts == InitCharts /\ [][UpdateAllCharts]_vars

\* The program started on any file of WeekDocs, followed by changes to the
\* tasks of single days and the timer
InitWeek ==
    \E stored_data \in WeekDocs, now \in Clock :
        /\ disk = FileOf(stored_data)
        /\ Startup(load_data(disk), now)

WeekSteps ==
    \/ steps < MaxWeekSteps /\ AddTaskToDay
    \/ steps < MaxWeekSteps /\ DeleteTask
    \/ UpdateAllCharts

SpecWeek == InitWeek /\ [][WeekSteps]_vars

\* The first start of the program (no file: the week is created from the
\* default lists), followed by the task handlers, clicks on the checkboxes of
\* the tasks on display, and the timer
InitFresh ==
    \E now \in Clock :
        /\ disk = NoFile
        /\ Startup(load_data(disk), now)

FreshSteps ==
    \/ steps < MaxFreshSteps /\ AddTaskTemplate
    \/ steps < MaxFreshSteps /\ AddTaskToDay
    \/ steps < MaxFreshSteps /\ EditTask
    \/ steps < MaxFreshSteps /\ DeleteTask
    \/ steps < MaxFreshSteps /\ ClearAllTasks
    \/ steps < MaxFreshSteps /\ ClickTask
    \/ UpdateAllCharts

SpecFresh == InitFresh /\ [][FreshSteps]_vars

\* Every handler, the save button, the theme button, the timer and a restart
\* of the program
DiskSteps ==
    \/ steps < MaxDiskSteps /\ AddHabitGlobal
    \/ steps < MaxDiskSteps /\ AddHabitInline
    \/ steps < MaxDiskSteps /\ EditHabit
    \/ steps < MaxDiskSteps /\ DeleteHabit
    \/ steps < MaxDiskSteps /\ ClearAllHabits
    \/ steps < MaxDiskSteps /\ UpdateHabit
    \/ steps < MaxDiskSteps /\ UpdateTask
    \/ steps < MaxDiskSteps /\ AddTaskTemplate
    \/ steps < MaxDiskSteps /\ AddTaskToDay
    \/ steps < MaxDiskSteps /\ EditTask
    \/ steps < MaxDiskSteps /\ DeleteTask
    \/ steps < MaxDiskSteps /\ ClearAllTasks
    \/ steps < MaxDiskSteps /\ SaveData
    \/ steps < MaxDiskSteps /\ ToggleThemeAction
    \/ steps < MaxDiskSteps /\ Restart
    \/ UpdateAllCharts

SpecDisk == Init /\ [][DiskSteps]_vars

\* Only clicks on the checkboxes, the two entry fields that add a habit or a
\* task template, the save button, the timer and a restart of the program,
\* explored deeper
SaveSteps ==
    \/ steps < MaxSaveSteps /\ ClickHabit
    \/ steps < MaxSaveSteps /\ ClickTask
    \/ steps < MaxSaveSteps /\ AddHabitGlobal
    \/ steps < MaxSaveSteps /\ AddTaskTemplate
    \/ steps < MaxSaveSteps /\ SaveData
    \/ steps < MaxSaveSteps /\ Restart
    \/ UpdateAllCharts

SpecSave == InitClicks /\ [][SaveSteps]_vars

----------------------------------------------------------------------------
(* Vocabulary of the properties *)

ThisWeek == WeekDates(week_start_date)

\* Every habit of the list hs has an entry in the record rec
Covers(rec, hs) == Range(hs) \subseteq DOMAIN rec.habits

NoDuplicates(seq) == \A i, j \in 1..Len(seq) : i # j => seq[i] # seq[j]

\* The name a handler makes of the text it was given
LastText == strip(last.dlg.text)

LastIsAddHabit == last.op \in {"add_habit_global", "add_habit_inline"}

Changed == Store # pre

\* Task data of every record is what it was before the last handler call
TasksUntouched ==
    /\ task_templates = pre.task_templates
    /\ DOMAIN daily_data = DOMAIN pre.daily_data
    /\ \A d \in DOMAIN daily_data :
          /\ daily_data[d].tasks = pre.daily_data[d].tasks
          /\ daily_data[d].task_status = pre.daily_data[d].task_status

----------------------------------------------------------------------------
(* C1 *)

\* C1: at startup and after every handler call, each of the 7 dates of the
\* displayed week has a DayRecord whose habits map has a key for every name
\* of the global habit list (the map may hold more keys, never fewer).
C1_WeekCoversHabits ==
    \A i \in 0..(DaysInWeek - 1) :
        LET d == strftime(week_start_date + i)
        IN  /\ d \in DOMAIN daily_data
            /\ Covers(daily_data[d], habits)

\* A habit handler has changed the list, and a week record that was loaded
\* without one of the global habits holds a key that is not global.
C1_Witness ==
    /\ last.op = "edit_habit"
    /\ Changed
    /\ steps = 2
    /\ \E d \in ThisWeek :
          /\ d \in DOMAIN ForeignDoc.daily_data
          /\ ~Covers(ForeignDoc.daily_data[d], ForeignDoc.habits)
          /\ Covers(daily_data[d], habits)
          /\ DOMAIN daily_data[d].habits # Range(habits)
    /\ habits # <<>>

----------------------------------------------------------------------------
(* C2 *)

\* C2 as claimed: every DayRecord of daily_data, whatever its date, has an
\* entry for every habit of the global habit list.
C2_EveryRecordCoversHabits ==
    \A d \in DOMAIN daily_data : Covers(daily_data[d], habits)

\* C2 as amended: a DayRecord has an entry for every habit of the global
\* list if its date is in the displayed week, or if it had an entry for
\* every global habit before (in the loaded document at startup, before the
\* handler call afterwards).  A record outside the week that was loaded
\* without some global habit is not repaired at startup.
C2_LockstepKept ==
    \A d \in DOMAIN daily_data :
        (\/ d \in ThisWeek
         \/ /\ d \in DOMAIN pre.daily_data
            /\ Covers(pre.daily_data[d], pre.habits))
        => Covers(daily_data[d], habits)

\* A habit was added while a record outside the displayed week was in
\* lockstep, and that record got the new key.
C2_Witness ==
    /\ LastIsAddHabit
    /\ Changed
    /\ OldDate \in DOMAIN pre.daily_data
    /\ OldDate \notin ThisWeek
    /\ pre.habits # <<>>
    /\ Covers(pre.daily_data[OldDate], pre.habits)
    /\ LastText \notin DOMAIN pre.daily_data[OldDate].habits
    /\ LastText \in DOMAIN daily_data[OldDate].habits

----------------------------------------------------------------------------
(* C3 *)

\* C3: the global habit list, which starts without duplicates, never holds
\* a name twice, whatever habit handlers are called; adding a name that is
\* already listed leaves one occurrence of it.
C3_HabitsUnique == NoDuplicates(habits)

\* C was added (no document lists it), and then added again.
C3_Witness ==
    /\ LastIsAddHabit
    /\ LastText = C
    /\ InList(C, pre.habits)
    /\ pre.habits[Len(pre.habits)] = C
    /\ Cardinality({i \in 1..Len(habits) : habits[i] = C}) = 1

----------------------------------------------------------------------------
(* C4 *)

LastIsDuplicateAdd ==
    \/ /\ LastIsAddHabit
       /\ InList(LastText, pre.habits)
    \/ /\ last.op = "add_task_template"
       /\ InList(LastText, pre.task_templates)
    \/ /\ last.op = "add_task_to_day"
       /\ ~last.dlg.cancelled
       /\ last.date \in DOMAIN pre.daily_data
       /\ InList(LastText, pre.daily_data[last.date].tasks)

\* C4: an add whose (trimmed) name is already in its scope -- the global
\* habit list, the global template list, the tasks list of the day -- leaves
\* the whole Store as it was.
C4_DuplicateAddIsNoOp == LastIsDuplicateAdd => Store = pre

\* A day task was added under a name, typed with a leading blank, that the
\* day already lists, while the template list does not hold it.
C4_Witness ==
    /\ last.op = "add_task_to_day"
    /\ last.dlg.text = <<" ", "b">>
    /\ last.date \in ThisWeek
    /\ last.date \in DOMAIN pre.daily_data
    /\ InList(B, pre.daily_data[last.date].tasks)
    /\ ~InList(B, pre.task_templates)
    /\ steps = 2

----------------------------------------------------------------------------
(* C5 *)

\* C5: adding a non-empty name that is not in the global habit list appends
\* it as the last element of the list and gives every DayRecord, of every
\* date, the entry name -> false; all other habit entries, the order of the
\* other habits and all task data stay as they were.
C5_AddHabitAppends ==
    (LastIsAddHabit /\ LastText # <<>> /\ ~InList(LastText, pre.habits)) =>
        /\ habits = pre.habits \o <<LastText>>
        /\ TasksUntouched
        /\ \A d \in DOMAIN daily_data :
              /\ DOMAIN daily_data[d].habits = (DOMAIN pre.daily_data[d].habits) \cup {LastText}
              /\ daily_data[d].habits[LastText] = FALSE
              /\ \A h \in (DOMAIN pre.daily_data[d].habits) \ {LastText} :
                    daily_data[d].habits[h] = pre.daily_data[d].habits[h]

\* A third habit was added by the inline entry; a record outside the
\* displayed week holds a checked habit and received the new entry.
C5_Witness ==
    /\ last.op = "add_habit_inline"
    /\ LastText = C
    /\ ~InList(C, pre.habits)
    /\ Len(habits) = 3
    /\ OldDate \in DOMAIN daily_data
    /\ \E h \in DOMAIN pre.daily_data[OldDate].habits : pre.daily_data[OldDate].habits[h]
    /\ daily_data[OldDate].habits[C] = FALSE

----------------------------------------------------------------------------
(* C6 *)

\* edit_habit was called with a listed name and a new name that is not
\* empty, not the old name and not listed
LastIsRename ==
    /\ last.op = "edit_habit"
    /\ ~last.dlg.cancelled
    /\ InList(last.name, pre.habits)
    /\ LastText # <<>>
    /\ LastText # last.name
    /\ ~InList(LastText, pre.habits)

\* C6: such a rename puts the new name where the old name was in the global
\* habit list, every other position staying as it was, and in every
\* DayRecord drops the key of the old name and maps the new name to the
\* value the old name had there (false where it had none).
C6_RenameHabitInPlace ==
    LastIsRename =>
        /\ Len(habits) = Len(pre.habits)
        /\ \A i \in 1..Len(habits) :
              habits[i] = IF pre.habits[i] = last.name THEN LastText ELSE pre.habits[i]
        /\ DOMAIN daily_data = DOMAIN pre.daily_data
        /\ \A d \in DOMAIN daily_data :
              LET was == pre.daily_data[d].habits
                  now == daily_data[d].habits
              IN  /\ DOMAIN now = ((DOMAIN was) \ {last.name}) \cup {LastText}
                  /\ now[LastText] = (last.name \in DOMAIN was /\ was[last.name])
                  /\ \A h \in (DOMAIN was) \ {last.name, LastText} : now[h] = was[h]

\* The second of two habits was renamed; one record had it checked and keeps
\* the check under the new name, another record had no entry for it and maps
\* the new name to false.
C6_Witness ==
    /\ LastIsRename
    /\ last.name = B
    /\ LastText = C
    /\ pre.habits = <<A, B>>
    /\ habits = <<A, C>>
    /\ \E d \in DOMAIN daily_data :
          /\ B \in DOMAIN pre.daily_data[d].habits
          /\ pre.daily_data[d].habits[B]
          /\ daily_data[d].habits[C]
    /\ \E d \in DOMAIN daily_data :
          /\ B \notin DOMAIN pre.daily_data[d].habits
          /\ ~daily_data[d].habits[C]

----------------------------------------------------------------------------
(* C7 *)

LastIsRejectedRename ==
    \/ /\ last.op = "edit_habit"
       /\ ~last.dlg.cancelled
       /\ \/ LastText = <<>>
          \/ LastText = last.name
          \/ InList(LastText, pre.habits)
    \/ /\ last.op = "edit_task"
       /\ ~last.dlg.cancelled
       /\ \/ LastText = <<>>
          \/ LastText = last.name
          \/ /\ last.date \in DOMAIN pre.daily_data
             /\ InList(LastText, pre.daily_data[last.date].tasks)

\* C7: a rename whose new name is empty or blank, is the old name, or is
\* already in scope (the global habit list for a habit, the tasks list of
\* the day for a task) leaves the whole Store as it was.
C7_RejectedRenameIsNoOp == LastIsRejectedRename => Store = pre

\* A task of a displayed day was renamed to the name, typed with a leading
\* blank, of another task of that day.
C7_Witness ==
    /\ last.op = "edit_task"
    /\ last.name = A
    /\ last.dlg.text = <<" ", "b">>
    /\ last.date \in ThisWeek
    /\ last.date \in DOMAIN pre.daily_data
    /\ InList(A, pre.daily_data[last.date].tasks)
    /\ InList(B, pre.daily_data[last.date].tasks)

----------------------------------------------------------------------------
(* C8 *)

\* C8: when a listed habit a has been renamed to an unlisted name b and the
\* next handler call renames b to a, the global habit list is again what it
\* was before the first rename, and every DayRecord maps a to the value it
\* had then.
C8_RenameRoundTrip ==
    [][ (/\ LastIsRename
         /\ last'.op = "edit_habit"
         /\ ~last'.dlg.cancelled
         /\ last'.name = LastText
         /\ strip(last'.dlg.text) = last.name)
        => (/\ habits' = pre.habits
            /\ \A d \in DOMAIN pre.daily_data :
                  /\ d \in DOMAIN daily_data'
                  /\ last.name \in DOMAIN daily_data'[d].habits
                  /\ daily_data'[d].habits[last.name]
                        = DictGet(pre.daily_data[d].habits, last.name, FALSE)) ]_vars

\* Two calls after startup the first habit, renamed to C by the first call,
\* has its name and its place back, and the record that had it checked has
\* it checked.
C8_Witness ==
    /\ last.op = "edit_habit"
    /\ last.name = C
    /\ LastText = A
    /\ steps = 2
    /\ pre.habits = <<C, B>>
    /\ habits = <<A, B>>
    /\ OldDate \in DOMAIN daily_data
    /\ pre.daily_data[OldDate].habits[C]
    /\ daily_data[OldDate].habits[A]

----------------------------------------------------------------------------
(* C9 *)

LastIsConfirmedDelete == last.op = "delete_habit" /\ last.flag

\* C9 as claimed: after a confirmed delete the name is in neither the global
\* habit list nor the habits map of any DayRecord, whether or not the name
\* was in the global list.
C9_DeleteRemovesEverywhere ==
    LastIsConfirmedDelete =>
        /\ ~InList(last.name, habits)
        /\ \A d \in DOMAIN daily_data : last.name \notin DOMAIN daily_data[d].habits

\* C9 as amended: after a confirmed delete of a name of the global habit
\* list the name is in neither the list nor the habits map of any DayRecord
\* of any date, and the other habits, their order and flags, and all task
\* data are what they were; a delete of a name that is not in the global
\* list changes nothing, so a key that only some DayRecord holds stays.
C9_DeleteListedHabit ==
    /\ (LastIsConfirmedDelete /\ InList(last.name, pre.habits)) =>
          /\ habits = SelectSeq(pre.habits, LAMBDA h : h # last.name)
          /\ TasksUntouched
          /\ \A d \in DOMAIN daily_data :
                /\ DOMAIN daily_data[d].habits = (DOMAIN pre.daily_data[d].habits) \ {last.name}
                /\ \A h \in DOMAIN daily_data[d].habits :
                      daily_data[d].habits[h] = pre.daily_data[d].habits[h]
    /\ (last.op = "delete_habit" /\ ~InList(last.name, pre.habits)) => Store = pre

\* The first of two habits was deleted; a record outside the displayed week
\* had it checked and lost the key, and keeps the entry of the other habit.
C9_Witness ==
    /\ LastIsConfirmedDelete
    /\ last.name = A
    /\ pre.habits = <<A, B>>
    /\ habits = <<B>>
    /\ OldDate \in DOMAIN daily_data
    /\ OldDate \notin ThisWeek
    /\ pre.daily_data[OldDate].habits[A]
    /\ DOMAIN daily_data[OldDate].habits = {B}

----------------------------------------------------------------------------
(* C10 *)

\* update_task set a task listed on a displayed day to the opposite of the
\* value its checkbox showed
LastIsToggleOfShownTask ==
    /\ last.op = "update_task"
    /\ last.date \in ThisWeek
    /\ last.date \in DOMAIN pre.daily_data
    /\ InList(last.name, pre.daily_data[last.date].tasks)
    /\ last.flag = ~DictGet(pre.daily_data[last.date].task_status, last.name, FALSE)

\* C10: when a task shown on a displayed day has been toggled to the
\* opposite value, toggling it back gives the day the task_status map and
\* the tasks list it had before the first toggle.
C10_ToggleTwiceRestores ==
    LastIsToggleOfShownTask =>
        LET back == update_task(Store, last.name, last.date, ~last.flag)
        IN  /\ back.daily_data[last.date].task_status = pre.daily_data[last.date].task_status
            /\ back.daily_data[last.date].tasks = pre.daily_data[last.date].tasks

----------------------------------------------------------------------------
(* C11 *)

LastIsToggle == last.op \in {"update_habit", "update_task"}

\* C11: update_habit and update_task called with a date that is not a key of
\* daily_data leave the Store as it was: no DayRecord is created for the date
\* and no record is modified.
C11_AbsentDateToggleIsNoOp ==
    (LastIsToggle /\ last.date \notin DOMAIN pre.daily_data) =>
        /\ last.date \notin DOMAIN daily_data
        /\ Store = pre

\* A habit of the list was toggled to True for a date that has no record.
C11_Witness ==
    /\ last.op = "update_habit"
    /\ last.flag
    /\ last.date = AbsentDate
    /\ InList(last.name, habits)
    /\ AbsentDate \notin DOMAIN pre.daily_data
    /\ DOMAIN daily_data # {}

----------------------------------------------------------------------------
(* C12 *)

\* update_habit was called with a name that is no key of the day's habits
\* map, or update_task with a name that is neither in the day's tasks list
\* nor a key of its task_status map
LastIsToggleOfUnknownName ==
    /\ LastIsToggle
    /\ last.date \in DOMAIN pre.daily_data
    /\ \/ /\ last.op = "update_habit"
          /\ last.name \notin DOMAIN pre.daily_data[last.date].habits
       \/ /\ last.op = "update_task"
          /\ ~InList(last.name, pre.daily_data[last.date].tasks)
          /\ last.name \notin DOMAIN pre.daily_data[last.date].task_status

\* C12: a toggle of a habit name that is no key of the day's habits map, or
\* of a task name that is in neither the day's tasks list nor its task_status
\* map, is ignored: the Store is unchanged and the day's maps get no new key.
C12_UnknownNameToggleIgnored ==
    LastIsToggleOfUnknownName =>
        /\ Store = pre
        /\ DOMAIN daily_data[last.date].habits = DOMAIN pre.daily_data[last.date].habits
        /\ DOMAIN daily_data[last.date].task_status =
              DOMAIN pre.daily_data[last.date].task_status

----------------------------------------------------------------------------
(* C13 *)

\* add_task_template was given a text whose trimmed form is not empty and is
\* not in the template list
LastIsNewTemplate ==
    /\ last.op = "add_task_template"
    /\ LastText # <<>>
    /\ ~InList(LastText, pre.task_templates)

\* Habit data of the Store is what it was before the last handler call
HabitsUntouched ==
    /\ habits = pre.habits
    /\ DOMAIN daily_data = DOMAIN pre.daily_data
    /\ \A d \in DOMAIN daily_data : daily_data[d].habits = pre.daily_data[d].habits

\* C13: add_task_template with a non-empty name that is not in the template
\* list appends the name to the template list and, in every DayRecord of
\* every date, appends the name to tasks and sets task_status[name] to False
\* (the other keys keep their values); no habit data changes.
C13_AddTemplatePropagates ==
    LastIsNewTemplate =>
        /\ task_templates = Append(pre.task_templates, LastText)
        /\ HabitsUntouched
        /\ \A d \in DOMAIN daily_data :
              /\ daily_data[d].tasks = Append(pre.daily_data[d].tasks, LastText)
              /\ DOMAIN daily_data[d].task_status =
                    (DOMAIN pre.daily_data[d].task_status) \cup {LastText}
              /\ daily_data[d].task_status[LastText] = FALSE
              /\ \A t \in (DOMAIN pre.daily_data[d].task_status) \ {LastText} :
                    daily_data[d].task_status[t] = pre.daily_data[d].task_status[t]

\* The text " b" made a new template; a day that already listed b, checked,
\* got b appended again and its status set to False, and a day that did not
\* list b got it too.
C13_Witness ==
    /\ LastIsNewTemplate
    /\ last.dlg.text = <<" ", "b">>
    /\ task_templates = <<A, B>>
    /\ \E d \in DOMAIN daily_data :
          /\ pre.daily_data[d].tasks = <<A, B>>
          /\ pre.daily_data[d].task_status[B]
          /\ daily_data[d].tasks = <<A, B, B>>
          /\ ~daily_data[d].task_status[B]
    /\ \E d \in DOMAIN daily_data :
          /\ pre.daily_data[d].tasks = <<A>>
          /\ daily_data[d].tasks = <<A, B>>

----------------------------------------------------------------------------
(* C14 *)

LastIsDayTaskOp == last.op \in {"add_task_to_day", "edit_task", "delete_task"}

\* C14: add_task_to_day, edit_task and delete_task change nothing but the
\* tasks list and the task_status map of the date they are called for: the
\* template list, the habit list, the habits map of every record and the
\* tasks and task_status of every other date are what they were, and no
\* record is created or dropped.
C14_DayTaskOpsAreLocal ==
    LastIsDayTaskOp =>
        /\ task_templates = pre.task_templates
        /\ HabitsUntouched
        /\ \A d \in (DOMAIN daily_data) \ {last.date} :
              /\ daily_data[d].tasks = pre.daily_data[d].tasks
              /\ daily_data[d].task_status = pre.daily_data[d].task_status

\* A confirmed delete_task removed a task that is also a template from one
\* day; another day still lists it.
C14_Witness ==
    /\ last.op = "delete_task"
    /\ last.flag
    /\ InList(last.name, task_templates)
    /\ InList(last.name, pre.daily_data[last.date].tasks)
    /\ ~InList(last.name, daily_data[last.date].tasks)
    /\ last.name \notin DOMAIN daily_data[last.date].task_status
    /\ \E d \in (DOMAIN daily_data) \ {last.date} : InList(last.name, daily_data[d].tasks)

----------------------------------------------------------------------------
(* C15 *)

\* C15: after a clear_all_habits that the user confirms (or would confirm,
\* when the handler returns without asking), the habit list is empty and the
\* habits map of every DayRecord is empty, whatever the Store held before,
\* also when the habit list was empty already and some DayRecord still had
\* habit keys; task data is unchanged.
C15_ClearAllHabitsEmpties ==
    (last.op = "clear_all_habits" /\ last.flag) =>
        /\ habits = <<>>
        /\ \A d \in DOMAIN daily_data : DOMAIN daily_data[d].habits = {}
        /\ TasksUntouched

----------------------------------------------------------------------------
(* C16 *)

\* C16: after a clear_all_tasks that the user confirms (or would confirm,
\* when the handler returns without asking), the template list is empty and
\* tasks and task_status of every DayRecord are empty, whatever the Store
\* held before, also when the templates and every tasks list were empty
\* already and some task_status map still had keys; habit data is unchanged.
C16_ClearAllTasksEmpties ==
    (last.op = "clear_all_tasks" /\ last.flag) =>
        /\ task_templates = <<>>
        /\ \A d \in DOMAIN daily_data :
              /\ daily_data[d].tasks = <<>>
              /\ DOMAIN daily_data[d].task_status = {}
        /\ HabitsUntouched

----------------------------------------------------------------------------
(* C17 *)

\* The number of entries of a day's tasks list whose task_status is True
CheckedEntries(rec) ==
    Cardinality({i \in 1..Len(rec.tasks) :
                    /\ rec.tasks[i] \in DOMAIN rec.task_status
                    /\ rec.task_status[rec.tasks[i]]})

\* floor(100 * c / n), and 0 when n = 0
FloorPercent(c, n) == IF n = 0 THEN 0 ELSE (100 * c) \div n

\* C17: for every date of the displayed week the percentage shown for the
\* day (its bar, and its donut once drawn) is floor(100 * c / n), where n is
\* the length of the day's tasks list and c the number of its entries whose
\* task_status is True, and 0 when n = 0; keys of task_status that are not
\* in the tasks list count in neither.
C17_DayRateIsFloor ==
    \A d_idx \in 0..(DaysInWeek - 1) :
        LET date == strftime(week_start_date + d_idx)
            rec  == daily_data[date]
            rate == FloorPercent(CheckedEntries(rec), Len(rec.tasks))
        IN  /\ shown.bars[d_idx] = rate
            /\ date \in DOMAIN shown.donut => shown.donut[date] = rate

----------------------------------------------------------------------------
(* C18 *)

\* Every day percentage on display is an integer from 0 to 100
DayRatesInRange ==
    /\ \A d_idx \in DOMAIN shown.bars : shown.bars[d_idx] \in 0..100
    /\ \A date \in DOMAIN shown.donut : shown.donut[date] \in 0..100

\* C18: in every reachable state the percentage of every date of the
\* displayed week is an integer from 0 to 100; drawing the charts leaves
\* the Store as it is, and drawing them again leaves the percentages as
\* they are.
C18_DayRateInRangeAndStable ==
    /\ []DayRatesInRange
    /\ [][UpdateAllCharts =>
            /\ Store' = Store
            /\ DOMAIN shown'.donut = ThisWeek
            /\ update_all_charts(Store', habit_vars', week_start_date', shown') = shown']_vars

\* A day lists a task twice beside another one, the task is checked, and the
\* day shows 66 percent; another record holds a status for a task it does
\* not list.
C18_Witness ==
    /\ \E date \in DOMAIN shown.donut :
          /\ daily_data[date].tasks = <<A, B, B>>
          /\ daily_data[date].task_status = (A :> FALSE @@ B :> TRUE)
          /\ shown.donut[date] = 66
    /\ \E d_idx \in 0..(DaysInWeek - 1) :
          /\ daily_data[strftime(week_start_date + d_idx)].tasks = <<A, B>>
          /\ shown.bars[d_idx] = 0
    /\ last.op = "update_task"

----------------------------------------------------------------------------
(* C19 *)

\* The number of dates of the displayed week whose record has the habit True
TrueDays(habit) ==
    Cardinality({d \in ThisWeek : d \in DOMAIN daily_data
                                   /\ DictGet(daily_data[d].habits, habit, FALSE)})

\* C19: for every habit of the habit list the weekly rate is
\* floor(100 * k / 7), k being the number of the 7 dates of the displayed
\* week whose record has the habit True: this is what the checkboxes of its
\* row give, what the truncated rate computed from daily_data gives, and what
\* the label of the row shows after every update_habit for a date that has a
\* record (a click on a habit checkbox).
C19_HabitRateIsFloorOfStore ==
    \A h_idx \in 1..Len(habits) :
        LET rate == (100 * TrueDays(habits[h_idx])) \div 7
        IN  /\ h_idx \in DOMAIN habit_vars
            /\ habit_percent(habit_vars[h_idx]) = rate
            /\ int(calculate_habit_completion_rate(daily_data, habits[h_idx],
                                                    week_start_date)) = rate
            /\ (last.op = "update_habit" /\ last.date \in DOMAIN pre.daily_data) =>
                  shown.habit[h_idx] = rate

\* The third click on the row of a habit checked its third day: the habit
\* is True on 3 of the 7 days and its label shows 42.
C19_Witness ==
    /\ last.op = "update_habit"
    /\ last.flag
    /\ steps = 3
    /\ \E h_idx \in 1..Len(habits) :
          /\ habits[h_idx] = last.name
          /\ TrueDays(last.name) = 3
          /\ shown.habit[h_idx] = 42
          /\ ~pre.daily_data[last.date].habits[last.name]

----------------------------------------------------------------------------
(* C20 *)

\* The entries of the tasks lists of a set of dates, and those of them
\* whose task_status is True
RECURSIVE ListedIn(_)
ListedIn(dates) ==
    IF dates = {} THEN 0
    ELSE LET d == CHOOSE x \in dates : TRUE
         IN  Len(daily_data[d].tasks) + ListedIn(dates \ {d})

RECURSIVE CheckedIn(_)
CheckedIn(dates) ==
    IF dates = {} THEN 0
    ELSE LET d == CHOOSE x \in dates : TRUE
         IN  CheckedEntries(daily_data[d]) + CheckedIn(dates \ {d})

\* C20: the weekly percentage on display is floor(100 * C / T), T being the
\* sum of the lengths of the tasks lists of the 7 dates of the displayed week
\* and C the number of their entries whose task_status is True, and 0 when
\* T = 0.
C20_WeeklyRateIsFloor ==
    shown.weekly = FloorPercent(CheckedIn(ThisWeek), ListedIn(ThisWeek))

----------------------------------------------------------------------------
(* C21 *)

\* The step is a call of TrackerApp.save_data
IsSaveStep == last'.op = "save_data" /\ steps' = steps + 1

\* C21: the file changes only in a step of the save button.  Every other
\* step (a handler of habits or tasks, a toggle, the theme button, the
\* drawing of the charts, and a start of the program with its
\* initialize_week_data) leaves the file as it is, so the Store can differ
\* from the file until the save button is pressed.
C21_FileChangesOnlyOnSave == [][disk' # disk => IsSaveStep]_vars

\* A handler has added a task template that the file does not hold
C21_Witness ==
    /\ last.op = "add_task_template"
    /\ Changed
    /\ disk = FileOf(SavedDoc)
    /\ load_data(disk).task_templates # task_templates

----------------------------------------------------------------------------
(* C22 *)

\* The save button was pressed last and every chunk was written
LastIsSuccessfulSave == last.op = "save_data" /\ last.flag

\* The file as a save of the Store leaves it when every chunk is written
SavedStore == save_data(disk, Store, Len(json_dump(Store)))

\* C22: a successful save followed by load yields a document equal to the
\* Store (the same daily_data with the same dates, tasks in the same order,
\* the same task_status and habits maps, the same habits and task_templates
\* sequences), for the save that has just happened and for a save of every
\* reachable Store; the save does not change the Store.
C22_SaveLoadRoundTrip ==
    /\ LastIsSuccessfulSave => (Store = pre /\ load_data(disk) = Store)
    /\ load_data(SavedStore) = Store

\* A checkbox was clicked and the Store was saved, over the file of the
\* earlier week
C22_Witness ==
    /\ LastIsSuccessfulSave
    /\ steps = 2
    /\ disk # FileOf(SavedDoc)
    /\ load_data(disk).habits = SavedDoc.habits
    /\ \E d \in ThisWeek : \E h \in DOMAIN daily_data[d].habits : daily_data[d].habits[h]

----------------------------------------------------------------------------
(* C23 *)

\* C23: a save is all-or-nothing on disk.  After a step of the save button
\* the file is either the complete serialization of the current Store or,
\* if the save failed or was interrupted at any point, exactly what it was
\* before; a later load never finds a truncated document.
C23_SaveIsAllOrNothing ==
    [][IsSaveStep => (disk' = File(json_dump(Store')) \/ disk' = disk)]_vars

----------------------------------------------------------------------------
(* C24 *)

\* The program has just started: initialize_week_data ran on the loaded
\* daily_data, which pre holds
LastIsStartup == last.op = "__init__"

\* The dates of the week for which the file had no record
CreatedDates == ThisWeek \ DOMAIN pre.daily_data

\* C24: initializeWeek creates, for each of the 7 dates of the week without a
\* record, a record whose tasks is the task template list, whose task_status
\* maps exactly those tasks to false and whose habits maps exactly the global
\* habits to false, and afterwards all 7 dates are keys of daily_data; the
\* tasks list is a copy, so a later change to the tasks of one day changes
\* neither the template list nor the list of another day.
C24_InitializeWeekCreates ==
    /\ LastIsStartup =>
          /\ Cardinality(ThisWeek) = DaysInWeek
          /\ ThisWeek \subseteq DOMAIN daily_data
          /\ \A d \in CreatedDates :
                /\ daily_data[d].tasks = task_templates
                /\ daily_data[d].task_status = [t \in Range(task_templates) |-> FALSE]
                /\ daily_data[d].habits = [h \in Range(habits) |-> FALSE]
    /\ (LastIsDayTaskOp /\ Changed) =>
          /\ task_templates = pre.task_templates
          /\ \A d \in DOMAIN daily_data :
                d # last.date => daily_data[d].tasks = pre.daily_data[d].tasks

\* A task was added to a Monday that initialize_week_data had created from
\* two templates; the Sunday it had created still lists the two templates
C24_Witness ==
    /\ last.op = "add_task_to_day"
    /\ last.date = strftime(week_start_date)
    /\ steps = 1
    /\ task_templates = <<B, A>>
    /\ daily_data[strftime(week_start_date)].tasks = <<B, A, C>>
    /\ daily_data[strftime(week_start_date + 6)].tasks = <<B, A>>
    /\ daily_data[strftime(week_start_date + 6)].task_status = (A :> FALSE @@ B :> FALSE)
    /\ daily_data[strftime(week_start_date + 6)].habits = (A :> FALSE @@ B :> FALSE)
    /\ DOMAIN load_data(disk).daily_data = {OldDate}

----------------------------------------------------------------------------
(* C25 *)

\* The dates of the week for which the file had a record
KeptDates == ThisWeek \cap DOMAIN pre.daily_data

\* C25: for a date of the week whose record exists, initializeWeek only
\* inserts habits[h] = false for each global habit h the record lacks: no
\* existing flag changes, no habit key that is absent from the global list
\* is removed, and tasks and task_status stay as they are (templates the day
\* lacks are not added); the records outside the 7 dates and the global
\* lists are unchanged.
C25_InitializeWeekReconciles ==
    LastIsStartup =>
        /\ \A d \in KeptDates :
              /\ daily_data[d].tasks = pre.daily_data[d].tasks
              /\ daily_data[d].task_status = pre.daily_data[d].task_status
              /\ DOMAIN daily_data[d].habits =
                     (DOMAIN pre.daily_data[d].habits) \cup Range(habits)
              /\ \A h \in DOMAIN pre.daily_data[d].habits :
                     daily_data[d].habits[h] = pre.daily_data[d].habits[h]
              /\ \A h \in Range(habits) \ DOMAIN pre.daily_data[d].habits :
                     daily_data[d].habits[h] = FALSE
        /\ \A d \in (DOMAIN pre.daily_data) \ ThisWeek :
              d \in DOMAIN daily_data /\ daily_data[d] = pre.daily_data[d]
        /\ DOMAIN daily_data = (DOMAIN pre.daily_data) \cup ThisWeek
        /\ habits = get(load_data(disk), "habits", DefaultHabits)
        /\ task_templates = get(load_data(disk), "task_templates", DefaultTaskTemplates)

\* The file had a Monday that lacks the habit "a" and the template "b" and
\* carries the habit "c", which is not global
C25_Witness ==
    /\ LastIsStartup
    /\ habits = <<A, B>>
    /\ task_templates = <<B, A>>
    /\ strftime(week_start_date) \in KeptDates
    /\ pre.daily_data[strftime(week_start_date)].habits = (B :> TRUE @@ C :> FALSE)
    /\ daily_data[strftime(week_start_date)].habits = (A :> FALSE @@ B :> TRUE @@ C :> FALSE)
    /\ daily_data[strftime(week_start_date)].tasks = <<A, C>>
    /\ OldDate \in DOMAIN daily_data

----------------------------------------------------------------------------
(* C26 *)

\* C26: starting from a freshly initialized week with a duplicate-free
\* template list, after any sequence of addTaskTemplate, addDayTask,
\* renameTask, deleteTask and clearAllTasks no day's tasks list contains the
\* same task name twice (in particular after addDayTask(d, x) followed by
\* addTaskTemplate(x)).
C26_NoDuplicateTasks ==
    \A d \in DOMAIN daily_data : NoDuplicates(daily_data[d].tasks)

----------------------------------------------------------------------------
(* C27 *)

\* C27: starting from a freshly initialized week, after any sequence of task
\* operations (addTaskTemplate, addDayTask, renameTask, deleteTask,
\* clearAllTasks, toggleTask on displayed tasks) the key set of each day's
\* task_status equals the set of names in that day's tasks list: every
\* listed task has a status entry and no status entry is orphaned.
C27_StatusKeysAreTasks ==
    \A d \in DOMAIN daily_data :
        DOMAIN daily_data[d].task_status = Range(daily_data[d].tasks)

----------------------------------------------------------------------------
(* C28 *)

\* C28: addTaskTemplate(name) never changes the completion flag of a task
\* that already exists on some day: for every date and every task name in
\* that day's tasks list before the call, task_status[name] has the same
\* value after the call (a task marked done stays done).
C28_AddTemplateKeepsFlags ==
    last.op = "add_task_template" =>
        \A d \in DOMAIN pre.daily_data :
            \A t \in Range(pre.daily_data[d].tasks) :
                DictGet(daily_data[d].task_status, t, FALSE)
                    = DictGet(pre.daily_data[d].task_status, t, FALSE)

====
